---- MODULE Spec2Model ----
(***************************************************************************)
(* Model of plenti's build command (cmd/build.go): the Build function as a *)
(* sequential program, one action per statement that calls a collaborator, *)
(* run MaxRuns times in a row against the same project tree.               *)
(*                                                                         *)
(* The collaborators of package plenti/cmd/build and plenti/readers are    *)
(* modelled by their contracts: what they return (ok, an error, a panic)   *)
(* is chosen nondeterministically, what they write is fixed.               *)
(***************************************************************************)
EXTENDS Naturals, Sequences, FiniteSets, TLC

\* Number of consecutive invocations of the build command.
MaxRuns == 2

\* ------------------------------------------------------------- values

\* Outcomes of a call: it returns without error, returns an error, panics.
Res == {"ok", "err", "panic"}
\* Outcomes of a call whose signature has no error result.
ResNoErr == {"ok", "panic"}

\* Names the persisted configuration and the --dir flag are drawn from.
ThemeNames == {"", "mytheme", "other"}
BuildDirs == {"", "public"}
DirFlags == {"", "out"}

\* The zero value of readers.ThemeOptions.
ZeroOpts == "zero-options"

\* The themeConfig mapping of plenti.json: "other" has no entry.
PersistedThemeConfig == [t \in {"mytheme"} |-> "mytheme-options"]

\* The zero value of readers.SiteConfig.
ZeroConfig == [BuildDir |-> "", Theme |-> "", ThemeConfig |-> <<>>]

\* plenti.json: unreadable, or a configuration.
Unreadable == [ok |-> FALSE, BuildDir |-> "", Theme |-> "", ThemeConfig |-> <<>>]
ConfigFiles ==
  {Unreadable} \cup
  {[ok |-> TRUE, BuildDir |-> b, Theme |-> t, ThemeConfig |-> PersistedThemeConfig] :
     b \in BuildDirs, t \in ThemeNames}

\* The ejectable core files of the tool.
Ejectable == {"build.js", "router.svelte"}

\* What each collaborator writes under the build path.
EjectCopyFiles == {"ejected"}
AssetsFiles == {"assets"}
ClientFiles == {"spa"}
DataSourceFiles == {"content"}
NodeExecFiles == {"spa", "content"}
GopackFiles == {"web_modules"}
\* A file of a build that ran before the first modelled run.
StaleFile == [name |-> "stale", run |-> 0]

\* Where ThemesCopy stages a theme.
TempDir == "plenti-tmp"

VARIABLES
  configFile,    \* plenti.json on disk
  BuildDirFlag,  \* --dir
  NodeJSFlag,    \* --nodejs
  run,           \* number of the current invocation of Build
  pc,            \* the statement of Build about to execute, or the way the run ended
  siteConfig,    \* local siteConfig
  buildDir,      \* local buildDir
  tempBuildDir,  \* local tempBuildDir
  theme,         \* local theme
  buildPath,     \* local buildPath
  tempFiles,     \* local tempFiles
  ejectedPath,   \* local ejectedPath
  calls,         \* the calls this run has made, in order
  diag,          \* number of times the recover diagnostic was printed in this run
  outExists,     \* the build path exists on disk
  outFiles,      \* the files under the build path, each with the run that wrote it
  projEjected,   \* ejectable files present in the project's own tree
  tempExists,    \* the theme workspace exists on disk
  tempEjected,   \* ejectable files present in the theme workspace
  projBefore,    \* projEjected as it was when this run started
  prev           \* how the previous run ended and the file names it left

vars == <<configFile, BuildDirFlag, NodeJSFlag, run, pc, siteConfig, buildDir,
          tempBuildDir, theme, buildPath, tempFiles, ejectedPath, calls, diag,
          outExists, outFiles, projEjected, tempExists, tempEjected, projBefore, prev>>

\* What no statement of Build changes.
flags == <<configFile, BuildDirFlag, NodeJSFlag, projBefore>>
locals == <<siteConfig, buildDir, tempBuildDir, theme, buildPath, tempFiles, ejectedPath>>
outDir == <<outExists, outFiles>>
workspaces == <<projEjected, tempExists, tempEjected>>

\* ------------------------------------------------------------- helpers

\* A Go map lookup: the zero value for a missing key.
Lookup(m, k) == IF k \in DOMAIN m THEN m[k] ELSE ZeroOpts

\* filepath.Join of two elements, for the plain names used here.
Join(a, b) ==
  IF b = "" THEN a
  ELSE IF a = "" \/ a = "." THEN b
  ELSE a \o "/" \o b

Names(files) == {f.name : f \in files}

\* The build path's files after `names` were written in run r.
Overwrite(files, names, r) ==
  {f \in files : f.name \notin names} \cup {[name |-> n, run |-> r] : n \in names}

\* What a call that writes `names` may leave: all of it when it returns without
\* error, all or nothing of it when it fails.
Written(res, files, names, r) ==
  IF res = "ok" THEN {Overwrite(files, names, r)}
  ELSE {files, Overwrite(files, names, r)}

\* readers.GetSiteConfig: the persisted configuration, or the zero value when
\* the file cannot be loaded.
GetSiteConfig(file) ==
  IF file.ok
  THEN [BuildDir |-> file.BuildDir, Theme |-> file.Theme, ThemeConfig |-> file.ThemeConfig]
  ELSE ZeroConfig

\* The persisted value wins whenever it is set.
setBuildDirPersistedFirst(cfg) ==
  IF cfg.BuildDir # "" THEN cfg.BuildDir ELSE BuildDirFlag

\* A default name used when neither the flag nor the configuration names one.
setBuildDirDefaultPublic(cfg) ==
  IF BuildDirFlag # "" THEN BuildDirFlag
  ELSE IF cfg.BuildDir # "" THEN cfg.BuildDir
  ELSE "public"

setBuildDir(cfg) ==
  IF BuildDirFlag # "" THEN BuildDirFlag ELSE cfg.BuildDir

\* build.ThemesCopy: the path of a fresh temporary workspace and no error, or
\* an error with any path (the workspace made or not), or a panic.
ThemesCopy(path, opts) ==
  {[res |-> "ok", path |-> TempDir, made |-> TRUE]} \cup
  {[res |-> "err", path |-> p, made |-> m] : p \in {"", TempDir}, m \in BOOLEAN} \cup
  {[res |-> "panic", path |-> "", made |-> m] : m \in BOOLEAN}

\* The failed statement is attempted again.
LogFatalRetry(res, next) == IF res = "err" THEN pc ELSE next

\* The error is logged and the run goes on.
LogFatalIgnored(res, next) == next

\* log.Fatal on a non-nil error: the process exits there.
LogFatal(res, next) == IF res = "err" THEN "fatal" ELSE next

\* CheckErr of package cmd: fatal on a non-nil error.
CheckErr(res, next) == IF res = "err" THEN "fatal" ELSE next

\* The deferred function also runs the scaffold cleanup.
RecoverThenCleanup(res, next) == IF res = "panic" THEN "EjectClean" ELSE next

\* No deferred recover: a panic takes the process down.
RecoverMissing(res, next) == IF res = "panic" THEN "crashed" ELSE next

\* The deferred recover: a panic ends Build with the diagnostic printed.
Recover(res, next) == IF res = "panic" THEN "recovered" ELSE next
Printed(res) == IF res = "panic" THEN diag + 1 ELSE diag

\* The theme name alone, without the themes directory.
ThemePathBare(t) == t

\* "themes/"+theme
ThemePath(t) == "themes/" \o t

\* Build with dependency priming moved after asset staging.
ThenReordered(p) ==
  CASE p = "ThemesCopy" -> "ThemesMerge"
    [] p = "ThemesMerge" -> "os.Stat"
    [] p = "os.RemoveAll" -> "os.MkdirAll"
    [] p = "os.MkdirAll" -> "EjectTemp"
    [] p = "EjectTemp" -> "EjectCopy"
    [] p = "EjectCopy" -> "AssetsCopy"
    [] p = "NpmDefaults" -> "Gopack"
    [] p = "NodeClient" -> "NodeDataSource"
    [] p = "NodeDataSource" -> "NodeExec"
    [] p = "NodeExec" -> "NpmDefaults"
    [] p = "Client" -> "DataSource"
    [] p = "DataSource" -> "NpmDefaults"
    [] p = "ThemesClean" -> "done"
    [] p = "EjectClean" -> "done"

\* Build returning from the external branch, before bundling and cleanup.
ThenExternalReturns(p) ==
  CASE p = "ThemesCopy" -> "ThemesMerge"
    [] p = "ThemesMerge" -> "os.Stat"
    [] p = "os.RemoveAll" -> "os.MkdirAll"
    [] p = "os.MkdirAll" -> "NpmDefaults"
    [] p = "NpmDefaults" -> "EjectTemp"
    [] p = "EjectTemp" -> "EjectCopy"
    [] p = "EjectCopy" -> "AssetsCopy"
    [] p = "NodeClient" -> "NodeDataSource"
    [] p = "NodeDataSource" -> "NodeExec"
    [] p = "NodeExec" -> "done"
    [] p = "Client" -> "DataSource"
    [] p = "DataSource" -> "Gopack"
    [] p = "ThemesClean" -> "done"
    [] p = "EjectClean" -> "done"

\* The statement that follows statement p of Build when p neither fails nor
\* ends a branch of an if.
Then(p) ==
  CASE p = "ThemesCopy" -> "ThemesMerge"
    [] p = "ThemesMerge" -> "os.Stat"
    [] p = "os.RemoveAll" -> "os.MkdirAll"
    [] p = "os.MkdirAll" -> "NpmDefaults"
    [] p = "NpmDefaults" -> "EjectTemp"
    [] p = "EjectTemp" -> "EjectCopy"
    [] p = "EjectCopy" -> "AssetsCopy"
    [] p = "NodeClient" -> "NodeDataSource"
    [] p = "NodeDataSource" -> "NodeExec"
    [] p = "NodeExec" -> "Gopack"
    [] p = "Client" -> "DataSource"
    [] p = "DataSource" -> "Gopack"
    [] p = "ThemesClean" -> "done"
    [] p = "EjectClean" -> "done"

\* The theme branch taken whatever the theme.
ThemeBranchAlways(t) == "ThemesCopy"

\* if theme != ""
ThemeBranch(t) == IF t # "" THEN "ThemesCopy" ELSE "os.Stat"
\* if _, buildPathExistsErr := os.Stat(buildPath); buildPathExistsErr == nil
StatBranch(res) == IF res = "ok" THEN "os.RemoveAll" ELSE "os.MkdirAll"
\* The two strategies the wrong way round.
StrategyBranchInverted(nodejs) == IF nodejs THEN "Client" ELSE "NodeClient"

\* if NodeJSFlag
StrategyBranch(nodejs) == IF nodejs THEN "NodeClient" ELSE "Client"
\* The cleanup test the wrong way round.
CleanupBranchInverted(t) == IF t = "" THEN "ThemesClean" ELSE "EjectClean"
\* The theme branch of cleanup forgotten.
CleanupBranchEjectOnly(t) == "EjectClean"

\* if tempBuildDir != ""
CleanupBranch(t) == IF t # "" THEN "ThemesClean" ELSE "EjectClean"

Call(name, args, res) ==
  calls' = Append(calls, [name |-> name, args |-> args, res |-> res])

\* ------------------------------------------------------------- Init

Init ==
  /\ configFile \in ConfigFiles
  /\ BuildDirFlag \in DirFlags
  /\ NodeJSFlag \in BOOLEAN
  /\ run = 1
  /\ pc = "GetSiteConfig"
  /\ siteConfig = ZeroConfig
  /\ buildDir = ""
  /\ tempBuildDir = ""
  /\ theme = ""
  /\ buildPath = ""
  /\ tempFiles = {}
  /\ ejectedPath = ""
  /\ calls = <<>>
  /\ diag = 0
  /\ outExists \in BOOLEAN
  /\ outFiles = IF outExists THEN {StaleFile} ELSE {}
  \* the project root always exists
  /\ Join(".", setBuildDir(GetSiteConfig(configFile))) = "." => outExists
  /\ projEjected \in {{}, {"router.svelte"}}
  /\ projBefore = projEjected
  /\ tempExists = FALSE
  /\ tempEjected = {}
  /\ prev = [ended |-> "none", names |-> {}]

\* ------------------------------------------------------------- Build

GetSiteConfigStep ==
  /\ pc = "GetSiteConfig"
  /\ \E res \in ResNoErr :
       /\ Call("GetSiteConfig", <<".">>, res)
       /\ IF res = "ok"
          THEN /\ siteConfig' = GetSiteConfig(configFile)
               /\ buildDir' = setBuildDir(siteConfig')
               /\ theme' = siteConfig'.Theme
          ELSE UNCHANGED <<siteConfig, buildDir, theme>>
       /\ tempBuildDir' = ""
       /\ pc' = Recover(res, ThemeBranch(theme'))
       /\ diag' = Printed(res)
  /\ UNCHANGED <<flags, run, buildPath, tempFiles, ejectedPath, outDir, workspaces,
                 prev>>

ThemesCopyStep ==
  /\ pc = "ThemesCopy"
  /\ \E r \in ThemesCopy(ThemePath(theme), Lookup(siteConfig.ThemeConfig, theme)) :
       /\ Call("ThemesCopy", <<ThemePath(theme), Lookup(siteConfig.ThemeConfig, theme)>>, r.res)
       /\ tempBuildDir' = IF r.res = "panic" THEN tempBuildDir ELSE r.path
       /\ tempExists' = (r.made \/ tempExists)
       /\ tempEjected' = IF r.made THEN {} ELSE tempEjected
       /\ pc' = Recover(r.res, LogFatal(r.res, Then("ThemesCopy")))
       /\ diag' = Printed(r.res)
  /\ UNCHANGED <<flags, run, siteConfig, buildDir, theme, buildPath, tempFiles,
                 ejectedPath, outDir, projEjected, prev>>

ThemesMergeStep ==
  /\ pc = "ThemesMerge"
  /\ \E res \in Res :
       /\ Call("ThemesMerge", <<tempBuildDir, buildDir>>, res)
       /\ tempEjected' \in (IF res = "ok" THEN {projEjected} ELSE {tempEjected, projEjected})
       /\ pc' = Recover(res, LogFatal(res, Then("ThemesMerge")))
       /\ diag' = Printed(res)
  /\ UNCHANGED <<flags, run, locals, outDir, projEjected, tempExists, prev>>

\* os.Stat(buildPath): nil for a path that exists, an error for one that does
\* not; the check itself may also fail on a path that exists (an I/O or
\* permission failure), and Build does not tell the two errors apart.
StatResults(exists) == IF exists THEN {"ok", "err"} ELSE {"err"}

StatStep ==
  /\ pc = "os.Stat"
  /\ buildPath' = Join(".", buildDir)
  /\ \E res \in StatResults(outExists) :
       /\ Call("os.Stat", <<buildPath'>>, res)
       /\ pc' = StatBranch(res)
  /\ UNCHANGED <<flags, run, siteConfig, buildDir, tempBuildDir, theme, tempFiles,
                 ejectedPath, diag, outDir, workspaces, prev>>

\* os.RemoveAll(path): refuses a path ending in "." with EINVAL; otherwise the
\* tree is gone, or an error is returned with any part of it left.
RemoveAllResults(path, files) ==
  IF path = "."
  THEN {[res |-> "err", exists |-> TRUE, files |-> files]}
  ELSE {[res |-> "ok", exists |-> FALSE, files |-> {}]} \cup
       {[res |-> "err", exists |-> TRUE, files |-> fs] : fs \in {files, {}}}

RemoveAllStep ==
  /\ pc = "os.RemoveAll"
  /\ \E r \in RemoveAllResults(buildPath, outFiles) :
       /\ Call("os.RemoveAll", <<buildPath>>, r.res)
       /\ outExists' = r.exists
       /\ outFiles' = r.files
       /\ pc' = LogFatal(r.res, Then("os.RemoveAll"))
  /\ UNCHANGED <<flags, run, locals, diag, workspaces, prev>>

\* os.MkdirAll(path): nil when the directory already exists (nothing in it is
\* touched) or was created; or an error. It makes its own existence check, so
\* it can succeed on a directory for which the os.Stat of Build just failed.
MkdirAllStep ==
  /\ pc = "os.MkdirAll"
  /\ \E res \in {"ok", "err"} :
       /\ Call("os.MkdirAll", <<buildPath>>, res)
       /\ outExists' = IF res = "ok" THEN TRUE ELSE outExists
       /\ pc' = LogFatal(res, Then("os.MkdirAll"))
  /\ UNCHANGED <<flags, run, locals, diag, outFiles, workspaces, prev>>

NpmDefaultsStep ==
  /\ pc = "NpmDefaults"
  /\ \E res \in Res :
       /\ Call("NpmDefaults", <<tempBuildDir>>, res)
       /\ pc' = Recover(res, LogFatal(res, Then("NpmDefaults")))
       /\ diag' = Printed(res)
  /\ UNCHANGED <<flags, run, locals, outDir, workspaces, prev>>

\* The ejectable files present in the active workspace.
Present(t) == IF t # "" THEN tempEjected ELSE projEjected

\* build.EjectTemp returns a file list and a path and no error: it writes the
\* ejectable files the workspace lacks and returns the list of those it wrote
\* and the ejected root ("ok"); or it fails to write them and returns all the
\* same, with nothing written and an empty list ("failed"); or it panics.
EjectTempResults == {"ok", "failed", "panic"}

EjectTempStep ==
  /\ pc = "EjectTemp"
  /\ \E res \in EjectTempResults :
       /\ Call("EjectTemp", <<tempBuildDir>>, res)
       /\ IF res = "ok"
          THEN /\ tempFiles' = Ejectable \ Present(tempBuildDir)
               /\ ejectedPath' = Join(tempBuildDir, "ejected")
               /\ IF tempBuildDir # ""
                  THEN tempEjected' = Ejectable /\ UNCHANGED projEjected
                  ELSE projEjected' = Ejectable /\ UNCHANGED tempEjected
          ELSE IF res = "failed"
          THEN /\ tempFiles' = {}
               /\ ejectedPath' = Join(tempBuildDir, "ejected")
               /\ UNCHANGED <<projEjected, tempEjected>>
          ELSE UNCHANGED <<tempFiles, ejectedPath, projEjected, tempEjected>>
       /\ pc' = Recover(res, Then("EjectTemp"))
       /\ diag' = Printed(res)
  /\ UNCHANGED <<flags, run, siteConfig, buildDir, tempBuildDir, theme, buildPath,
                 outDir, tempExists, prev>>

\* A fallible collaborator that writes `names` under the build path.
WriteStep(name, args, names, next) ==
  \E res \in Res :
    /\ Call(name, args, res)
    /\ outFiles' \in Written(res, outFiles, names, run)
    /\ pc' = Recover(res, LogFatal(res, next))
    /\ diag' = Printed(res)

EjectCopyStep ==
  /\ pc = "EjectCopy"
  /\ WriteStep("EjectCopy", <<buildPath, tempBuildDir, ejectedPath>>, EjectCopyFiles,
               Then("EjectCopy"))
  /\ UNCHANGED <<flags, run, locals, outExists, workspaces, prev>>

AssetsCopyStep ==
  /\ pc = "AssetsCopy"
  /\ WriteStep("AssetsCopy", <<buildPath, tempBuildDir>>, AssetsFiles,
               StrategyBranch(NodeJSFlag))
  /\ UNCHANGED <<flags, run, locals, outExists, workspaces, prev>>

NodeClientStep ==
  /\ pc = "NodeClient"
  /\ \E res \in ResNoErr :
       /\ Call("NodeClient", <<buildPath>>, res)
       /\ pc' = Recover(res, Then("NodeClient"))
       /\ diag' = Printed(res)
  /\ UNCHANGED <<flags, run, locals, outDir, workspaces, prev>>

NodeDataSourceStep ==
  /\ pc = "NodeDataSource"
  /\ \E res \in Res :
       /\ Call("NodeDataSource", <<buildPath, siteConfig>>, res)
       /\ pc' = Recover(res, LogFatal(res, Then("NodeDataSource")))
       /\ diag' = Printed(res)
  /\ UNCHANGED <<flags, run, locals, outDir, workspaces, prev>>

NodeExecStep ==
  /\ pc = "NodeExec"
  /\ WriteStep("NodeExec", <<"clientBuildStr", "staticBuildStr", "allNodesStr">>,
               NodeExecFiles, Then("NodeExec"))
  /\ UNCHANGED <<flags, run, locals, outExists, workspaces, prev>>

\* The client build reading the project root instead of the theme workspace.
ClientArgsProjectRoot(path, tempDir, ejected) == <<path, "", ejected>>

\* Arguments of build.Client.
ClientArgs(path, tempDir, ejected) == <<path, tempDir, ejected>>

ClientStep ==
  /\ pc = "Client"
  /\ WriteStep("Client", ClientArgs(buildPath, tempBuildDir, ejectedPath), ClientFiles,
               Then("Client"))
  /\ UNCHANGED <<flags, run, locals, outExists, workspaces, prev>>

DataSourceStep ==
  /\ pc = "DataSource"
  /\ WriteStep("DataSource", <<buildPath, siteConfig, tempBuildDir>>, DataSourceFiles,
               Then("DataSource"))
  /\ UNCHANGED <<flags, run, locals, outExists, workspaces, prev>>

GopackStep ==
  /\ pc = "Gopack"
  /\ \E res \in ResNoErr :
       /\ Call("Gopack", <<buildPath>>, res)
       /\ outFiles' \in Written(res, outFiles, GopackFiles, run)
       /\ pc' = Recover(res, CleanupBranch(tempBuildDir))
       /\ diag' = Printed(res)
  /\ UNCHANGED <<flags, run, locals, outExists, workspaces, prev>>

\* build.ThemesClean: deletes the theme workspace.
ThemesCleanStep ==
  /\ pc = "ThemesClean"
  /\ \E res \in Res :
       /\ Call("ThemesClean", <<tempBuildDir>>, res)
       /\ IF res = "ok"
          THEN tempExists' = FALSE /\ tempEjected' = {}
          ELSE UNCHANGED <<tempExists, tempEjected>>
       /\ pc' = Recover(res, CheckErr(res, Then(pc)))
       /\ diag' = Printed(res)
  /\ UNCHANGED <<flags, run, locals, outDir, projEjected, prev>>

\* Every ejectable file is handed to cleanup, not only the new ones.
EjectCleanArgsAll(files, path) == <<Ejectable, path>>

\* build.EjectClean(tempFiles, ejectedPath)
EjectCleanArgs(files, path) == <<files, path>>

\* build.EjectClean: deletes the listed files from the ejected root.
EjectCleanStep ==
  /\ pc = "EjectClean"
  /\ \E res \in Res :
       /\ Call("EjectClean", EjectCleanArgs(tempFiles, ejectedPath), res)
       /\ projEjected' = IF res = "ok"
                         THEN projEjected \ EjectCleanArgs(tempFiles, ejectedPath)[1]
                         ELSE projEjected
       /\ pc' = Recover(res, CheckErr(res, Then(pc)))
       /\ diag' = Printed(res)
  /\ UNCHANGED <<flags, run, locals, outDir, tempExists, tempEjected, prev>>

\* The ways a run ends: Build returned, log.Fatal exited, a panic was recovered.
Ended == {"done", "fatal", "recovered"}

\* The build command is invoked again, in a new process, on the same project.
BuildAgain ==
  /\ pc \in Ended
  /\ run < MaxRuns
  /\ run' = run + 1
  /\ pc' = "GetSiteConfig"
  /\ siteConfig' = ZeroConfig
  /\ buildDir' = ""
  /\ tempBuildDir' = ""
  /\ theme' = ""
  /\ buildPath' = ""
  /\ tempFiles' = {}
  /\ ejectedPath' = ""
  /\ calls' = <<>>
  /\ diag' = 0
  /\ prev' = [ended |-> pc, names |-> Names(outFiles)]
  /\ projBefore' = projEjected
  /\ UNCHANGED <<configFile, BuildDirFlag, NodeJSFlag, outDir, workspaces>>

Next ==
  \/ GetSiteConfigStep
  \/ ThemesCopyStep
  \/ ThemesMergeStep
  \/ StatStep
  \/ RemoveAllStep
  \/ MkdirAllStep
  \/ NpmDefaultsStep
  \/ EjectTempStep
  \/ EjectCopyStep
  \/ AssetsCopyStep
  \/ NodeClientStep
  \/ NodeDataSourceStep
  \/ NodeExecStep
  \/ ClientStep
  \/ DataSourceStep
  \/ GopackStep
  \/ ThemesCleanStep
  \/ EjectCleanStep
  \/ BuildAgain

Spec == Init /\ [][Next]_vars

\* ------------------------------------------------------------- properties

Called(n) == \E i \in 1..Len(calls) : calls[i].name = n
Count(n) == Cardinality({i \in 1..Len(calls) : calls[i].name = n})
Returned(n, res) == \E i \in 1..Len(calls) : calls[i].name = n /\ calls[i].res = res
Cleanups == {"ThemesClean", "EjectClean"}

\* The theme of the configuration Build works with.
ConfiguredTheme == IF configFile.ok THEN configFile.Theme ELSE ""

\* C1: a run that reaches cleanup invokes exactly one of ThemesClean and
\* EjectClean, never both and never neither, and which one is decided by
\* whether tempBuildDir is the empty string.
C1_ExactlyOneCleanup ==
  /\ Count("ThemesClean") + Count("EjectClean") <= 1
  /\ pc \in Cleanups => (pc = "ThemesClean" <=> tempBuildDir # "")
  /\ pc \in Cleanups => ~Called("ThemesClean") /\ ~Called("EjectClean")
  /\ (Returned("Gopack", "ok") /\ pc \notin Cleanups) =>
       Count("ThemesClean") + Count("EjectClean") = 1
  /\ pc = "done" => Count("ThemesClean") + Count("EjectClean") = 1
  /\ Called("ThemesClean") => tempBuildDir # ""
  /\ Called("EjectClean") => tempBuildDir = ""

C1_Witness == pc = "done" /\ Called("ThemesClean") /\ ~Called("EjectClean")

C3_NoThemeTakesEjectClean ==
  ConfiguredTheme = "" =>
    /\ ~Called("ThemesCopy")
    /\ ~Called("ThemesMerge")
    /\ pc \notin {"ThemesCopy", "ThemesMerge", "ThemesClean"}
    /\ tempBuildDir = ""
    /\ ~Called("ThemesClean")
    /\ (Returned("Gopack", "ok") /\ pc \notin Cleanups) => Called("EjectClean")

C3_Witness ==
  /\ configFile.ok
  /\ ConfiguredTheme = ""
  /\ pc = "done"
  /\ Called("EjectClean")

NativeCalls == {"Client", "DataSource"}
ExternalCalls == {"NodeClient", "NodeDataSource", "NodeExec"}

\* C4: with NodeJSFlag set neither Client nor DataSource is invoked, without
\* it none of NodeClient, NodeDataSource and NodeExec is; no run invokes
\* collaborators of both strategies.
C4_StrategyExclusive ==
  /\ NodeJSFlag => \A n \in NativeCalls : ~Called(n) /\ pc # n
  /\ ~NodeJSFlag => \A n \in ExternalCalls : ~Called(n) /\ pc # n
  /\ ~((\E n \in NativeCalls : Called(n)) /\ (\E n \in ExternalCalls : Called(n)))

C4_Witness ==
  /\ NodeJSFlag
  /\ pc = "done"
  /\ Called("NodeClient") /\ Called("NodeDataSource") /\ Called("NodeExec")

\* GetSiteConfig has returned and the output directory has been resolved.
Resolved == Len(calls) >= 2 \/ (Len(calls) = 1 /\ pc # "recovered")

\* C5: setBuildDir returns the override when it is non-empty and the persisted
\* value unchanged when it is empty: persisted "public" resolves to "public"
\* without an override and to "out" with the override "out".
C5_OverridePrecedence ==
  Resolved =>
    /\ BuildDirFlag # "" => buildDir = BuildDirFlag
    /\ BuildDirFlag = "" => buildDir = siteConfig.BuildDir
    /\ (siteConfig.BuildDir = "public" /\ BuildDirFlag = "") => buildDir = "public"
    /\ (siteConfig.BuildDir = "public" /\ BuildDirFlag = "out") => buildDir = "out"

C5_Witness ==
  /\ Resolved
  /\ siteConfig.BuildDir = "public"
  /\ BuildDirFlag = "out"
  /\ buildDir = "out"

\* The stage of the pipeline a call belongs to, in the order the stages are
\* meant to run.
StageOrder ==
  << {"GetSiteConfig"},
     {"ThemesCopy", "ThemesMerge"},
     {"os.Stat", "os.RemoveAll", "os.MkdirAll"},
     {"NpmDefaults"},
     {"EjectTemp", "EjectCopy"},
     {"AssetsCopy"},
     NativeCalls \cup ExternalCalls,
     {"Gopack"},
     Cleanups >>
Stage(n) == CHOOSE k \in 1..Len(StageOrder) : n \in StageOrder[k]
StagesRun == {Stage(calls[i].name) : i \in 1..Len(calls)}

\* C6: the stages run in the fixed order config resolution, theme composition,
\* workspace preparation, dependency priming, scaffold ejection, asset staging,
\* build strategy, bundling, cleanup: no call of a stage follows a call of a
\* later stage, the statement about to run never belongs to an earlier stage
\* than the last call, and a run that completes has gone through every stage
\* (theme composition exactly when a theme is configured).
C6_StageOrder ==
  /\ \A i, j \in 1..Len(calls) : i < j => Stage(calls[i].name) <= Stage(calls[j].name)
  /\ (pc \notin {"done", "fatal", "recovered"} /\ calls # <<>>) =>
       Stage(calls[Len(calls)].name) <= Stage(pc)
  /\ pc = "done" =>
       StagesRun = (1..Len(StageOrder)) \ (IF ConfiguredTheme = "" THEN {Stage("ThemesCopy")} ELSE {})

C6_Witness ==
  /\ pc = "done"
  /\ ConfiguredTheme # ""
  /\ StagesRun = 1..Len(StageOrder)

\* The calls whose returned error Build checks with log.Fatal.
Fallible ==
  {"ThemesCopy", "ThemesMerge", "os.RemoveAll", "os.MkdirAll", "NpmDefaults",
   "EjectCopy", "AssetsCopy", "NodeDataSource", "NodeExec", "Client", "DataSource"}

\* What this run has written so far.
WrittenThisRun == {f \in outFiles : f.run = run}

\* C7: the first error a stage returns ends the run there: the failing call is
\* the last call of the run and the process has exited, so no build strategy,
\* bundler or cleanup follows it; and the exit undoes nothing the run wrote.
C7_FailFast ==
  /\ [](\A i \in 1..Len(calls) :
          (calls[i].name \in Fallible /\ calls[i].res = "err") =>
             /\ i = Len(calls)
             /\ pc = "fatal")
  /\ [][(pc' = "fatal" /\ pc # "fatal") =>
          /\ Len(calls') = Len(calls) + 1
          /\ WrittenThisRun \subseteq outFiles'
          /\ (outExists /\ pc # "os.RemoveAll") => outExists'
          /\ tempExists => tempExists'
          /\ projEjected \subseteq projEjected'
          /\ tempEjected \subseteq tempEjected' \/ pc = "ThemesCopy"]_vars
  /\ [][pc = "fatal" => (pc' = "GetSiteConfig" /\ run' = run + 1)]_vars

C7_Witness ==
  /\ pc = "fatal"
  /\ Returned("Client", "err")
  /\ Called("AssetsCopy")
  /\ [name |-> "assets", run |-> run] \in outFiles
  /\ ~Called("Gopack")

\* The options plenti.json stores for a theme.
StoredOptions(t) == IF t = "mytheme" THEN "mytheme-options" ELSE ZeroOpts

\* C8: with a theme T configured, ThemesCopy is invoked with "themes/"+T and
\* the options stored for T, before ThemesMerge; when ThemesCopy returns an
\* error ThemesMerge is never invoked and the run ends fatally.
C8_ThemeCopyBeforeMerge ==
  /\ \A i \in 1..Len(calls) :
       calls[i].name = "ThemesCopy" =>
         /\ ConfiguredTheme # ""
         /\ calls[i].args[1] = "themes/" \o ConfiguredTheme
         /\ calls[i].args[2] = StoredOptions(ConfiguredTheme)
  /\ \A j \in 1..Len(calls) :
       calls[j].name = "ThemesMerge" =>
         \E i \in 1..(j - 1) : calls[i].name = "ThemesCopy" /\ calls[i].res = "ok"
  /\ (ConfiguredTheme # "" /\ Len(calls) >= 2) => calls[2].name = "ThemesCopy"
  /\ Returned("ThemesCopy", "err") => (pc = "fatal" /\ ~Called("ThemesMerge"))

C8_Witness ==
  /\ ConfiguredTheme = "mytheme"
  /\ Len(calls) >= 3
  /\ calls[2].name = "ThemesCopy"
  /\ calls[2].args = <<"themes/mytheme", "mytheme-options">>
  /\ calls[3].name = "ThemesMerge"

\* Workspace preparation of this run has completed without a fatal error.
Prepared == Returned("os.MkdirAll", "ok")

\* C9: whenever workspace preparation completes without a fatal error the
\* output directory exists and holds nothing a previous build left, whatever
\* the state of the output path before (absent, present, present with the
\* existence check failing), so every later stage writes into a fresh directory.
C9_FreshOutputDir ==
  Prepared =>
    /\ outExists
    /\ \A f \in outFiles : f.run = run
    /\ pc = "NpmDefaults" => outFiles = {}

\* C10: two consecutive successful runs with the same configuration and flags
\* leave the same file set, and once the second has passed workspace
\* preparation no file that only the first wrote is left.
C10_IdempotentStaging ==
  (run >= 2 /\ prev.ended = "done") =>
    /\ pc = "done" => Names(outFiles) = prev.names
    /\ Prepared => \A f \in outFiles : f.run # run - 1

\* C11: a scaffold file that was in the project before the run is never in the
\* newly-created list and is still there in every state of the run and after
\* it: EjectClean is given the list and the ejected root exactly as EjectTemp
\* returned them, no statement in between changes them, and with a theme the
\* project's scaffold files are not touched at all.
C11_KeptScaffoldSurvives ==
  /\ [](/\ projBefore \cap tempFiles = {}
        /\ projBefore \subseteq projEjected
        /\ tempBuildDir # "" => projEjected = projBefore
        /\ \A i \in 1..Len(calls) :
             calls[i].name = "EjectClean" =>
               /\ calls[i].args = <<tempFiles, ejectedPath>>
               /\ \E j \in 1..(i - 1) :
                    calls[j].name = "EjectTemp" /\ calls[j].res # "panic")
  /\ [][(run' = run /\ pc # "EjectTemp") => UNCHANGED <<tempFiles, ejectedPath>>]_vars

C11_Witness ==
  /\ pc = "done"
  /\ Returned("EjectClean", "ok")
  /\ projBefore = {"router.svelte"}
  /\ tempFiles = {"build.js"}
  /\ projEjected = {"router.svelte"}

\* The last call of the run and its outcome.
LastCall == calls[Len(calls)]

\* C12: a panic in a stage is intercepted by the deferred recover: the
\* diagnostic is printed exactly once, the panicking call is the last call of
\* the run (no bundling, no cleanup after it) and Build returns to its caller;
\* a returned stage error exits the process and never prints the diagnostic.
C12_PanicGuard ==
  /\ diag \in {0, 1}
  /\ \A i \in 1..Len(calls) :
       calls[i].res = "panic" => (i = Len(calls) /\ pc = "recovered" /\ diag = 1)
  /\ pc = "recovered" => (calls # <<>> /\ LastCall.res = "panic" /\ diag = 1)
  /\ pc # "recovered" => diag = 0
  /\ \A i \in 1..Len(calls) :
       (calls[i].res = "err" /\ calls[i].name # "os.Stat") =>
         (i = Len(calls) /\ pc = "fatal" /\ diag = 0)

C12_Witness ==
  /\ pc = "recovered"
  /\ Returned("AssetsCopy", "panic")
  /\ diag = 1
  /\ ~Called("Gopack")
  /\ \A n \in Cleanups : ~Called(n)

\* The last step of each build strategy.
StrategyLast == {"NodeExec", "DataSource"}

\* C13: Gopack is invoked at most once in a run, with the build path that
\* workspace preparation created, right after the last step of the selected
\* strategy returned without error (for both values of NodeJSFlag) and before
\* any cleanup; it is not invoked in a run whose strategy returned an error.
C13_BundlerOnce ==
  /\ Count("Gopack") <= 1
  /\ \A i \in 1..Len(calls) :
       calls[i].name = "Gopack" =>
         /\ i > 1
         /\ calls[i - 1].name = (IF NodeJSFlag THEN "NodeExec" ELSE "DataSource")
         /\ calls[i - 1].res = "ok"
         /\ calls[i].args = <<buildPath>>
         /\ \E k \in 1..i : calls[k].name = "os.MkdirAll" /\ calls[k].args = calls[i].args
         /\ \A j \in 1..Len(calls) : calls[j].name \in Cleanups => j > i
  /\ \A i \in 1..Len(calls) :
       (calls[i].name \in StrategyLast /\ calls[i].res = "ok") =>
         IF i = Len(calls) THEN pc = "Gopack" ELSE calls[i + 1].name = "Gopack"
  /\ (\E i \in 1..Len(calls) :
        calls[i].name \in NativeCalls \cup ExternalCalls /\ calls[i].res = "err") =>
       (~Called("Gopack") /\ pc = "fatal")
  /\ (\E n \in Cleanups : Called(n) \/ pc = n) => Returned("Gopack", "ok")

C13_Witness ==
  /\ NodeJSFlag
  /\ pc = "done"
  /\ Returned("NodeExec", "ok")
  /\ Count("Gopack") = 1

\* The steps that come after the two scaffold steps.
AfterScaffold == {"AssetsCopy"} \cup NativeCalls \cup ExternalCalls

\* C14: a failure of EjectTemp or of EjectCopy is fatal and ends the run
\* there, so AssetsCopy and the strategy's collaborators are invoked only
\* after both scaffold steps succeeded.
C14_ScaffoldFailureFatal ==
  /\ \A i \in 1..Len(calls) :
       (calls[i].name \in {"EjectTemp", "EjectCopy"} /\ calls[i].res \in {"failed", "err"}) =>
         (i = Len(calls) /\ pc = "fatal")
  /\ (\E n \in AfterScaffold : Called(n)) =>
       (Returned("EjectTemp", "ok") /\ Returned("EjectCopy", "ok"))

\* C15 as claimed: no cleanup operation is invoked in a run that ended in a
\* fatal error or in a recovered panic.
C15_NoCleanupInFailedRun ==
  pc \in {"fatal", "recovered"} => \A n \in Cleanups : ~Called(n)

\* C15, amended: a cleanup operation is invoked at most once per run, as the
\* call right after Gopack returned, and it is the last call of the run; a run
\* that ended in a fatal error or a recovered panic of any earlier call has
\* invoked none, and the theme workspace ThemesCopy created and the scaffold
\* files EjectTemp created are still in place. (A run may also end fatally or
\* in a recovered panic in the cleanup call itself.)
C15_CleanupOnlyAtEnd ==
  /\ Count("ThemesClean") + Count("EjectClean") <= 1
  /\ \A i \in 1..Len(calls) :
       calls[i].name \in Cleanups =>
         /\ i = Len(calls)
         /\ i > 1
         /\ calls[i - 1].name = "Gopack"
         /\ calls[i - 1].res = "ok"
  /\ (pc \in {"fatal", "recovered"} /\ LastCall.name \notin Cleanups) =>
       /\ \A n \in Cleanups : ~Called(n)
       /\ Returned("ThemesCopy", "ok") => tempExists
       /\ Returned("EjectTemp", "ok") => tempFiles \subseteq Present(tempBuildDir)

C15_Witness ==
  /\ pc = "fatal"
  /\ LastCall.name = "Client"
  /\ Returned("ThemesCopy", "ok")
  /\ tempExists
  /\ Returned("EjectTemp", "ok")
  /\ tempFiles # {}
  /\ tempFiles \subseteq tempEjected

\* Every call Build makes.
AllCalls == UNION {StageOrder[k] : k \in 1..Len(StageOrder)}

\* C16: no call is made twice in a run and the statement about to execute is
\* never one already executed, so a run makes at most one call per collaborator
\* and, each call returning, is never stuck before it ends; it ends in exactly
\* one of three ways: Build returned after cleanup, log.Fatal exited on a
\* returned error, or a panic was recovered.
C16_RunEndsOnce ==
  /\ \A n \in AllCalls : Count(n) <= 1
  /\ pc \in Ended \cup AllCalls
  /\ pc \notin Ended => (~Called(pc) /\ ENABLED Next)
  /\ pc = "done" <=>
       (calls # <<>> /\ LastCall.name \in Cleanups /\ LastCall.res = "ok")
  /\ pc = "fatal" <=>
       (calls # <<>> /\ LastCall.name # "os.Stat" /\ LastCall.res = "err")
  /\ pc = "recovered" <=> (calls # <<>> /\ LastCall.res = "panic")

C16_Witness ==
  /\ run = MaxRuns
  /\ pc = "done"
  /\ prev.ended = "fatal"
  /\ \A n \in AllCalls : Count(n) <= 1
  /\ Len(calls) >= Len(StageOrder)

\* C17: when plenti.json cannot be loaded the run goes on with the zero-value
\* configuration: the output directory is the override value, theme
\* composition is skipped and cleanup takes the scaffold-only branch.
C17_ConfigLoadFailure ==
  (~configFile.ok /\ Resolved) =>
    /\ siteConfig = ZeroConfig
    /\ buildDir = BuildDirFlag
    /\ theme = ""
    /\ tempBuildDir = ""
    /\ Len(calls) = 1 => pc = "os.Stat"
    /\ Len(calls) >= 2 => calls[2].name = "os.Stat"
    /\ \A n \in {"ThemesCopy", "ThemesMerge", "ThemesClean"} : ~Called(n) /\ pc # n
    /\ (Returned("Gopack", "ok") /\ pc \notin Cleanups) => Called("EjectClean")

C17_Witness ==
  /\ ~configFile.ok
  /\ BuildDirFlag = "out"
  /\ buildDir = "out"
  /\ pc = "done"
  /\ Returned("EjectClean", "ok")

\* C18: the path workspace preparation removes recursively is never the
\* project root: whenever os.RemoveAll is about to be called or was called,
\* its argument differs from ".".
C18_NeverRemovesProjectRoot ==
  /\ pc = "os.RemoveAll" => buildPath # "."
  /\ \A i \in 1..Len(calls) :
       calls[i].name = "os.RemoveAll" => calls[i].args[1] # "."

\* Position of the theme workspace among the arguments of the calls taking it.
WorkspaceArg(name) ==
  CASE name \in {"ThemesMerge", "NpmDefaults", "EjectTemp", "ThemesClean"} -> 1
    [] name \in {"EjectCopy", "AssetsCopy", "Client"} -> 2
    [] name = "DataSource" -> 3
    [] OTHER -> 0

\* The calls whose first argument is the resolved output path.
BuildPathCalls ==
  {"os.Stat", "os.RemoveAll", "os.MkdirAll", "EjectCopy", "AssetsCopy",
   "NodeClient", "NodeDataSource", "Client", "DataSource", "Gopack"}

\* C19: tempBuildDir is assigned only by ThemesCopy and buildPath only before
\* os.Stat; neither changes afterwards within a run, so every later stage and
\* the cleanup decision are given the same theme workspace, and every stage
\* from workspace preparation through bundling the same resolved output path.
C19_StablePaths ==
  /\ [](/\ ~Called("ThemesCopy") => tempBuildDir = ""
        /\ \A i \in 1..Len(calls) :
             /\ WorkspaceArg(calls[i].name) # 0 =>
                  calls[i].args[WorkspaceArg(calls[i].name)] = tempBuildDir
             /\ calls[i].name \in BuildPathCalls =>
                  /\ calls[i].args[1] = buildPath
                  /\ buildPath = Join(".", buildDir)
        /\ Called("ThemesClean") \/ pc = "ThemesClean" => tempBuildDir # ""
        /\ Called("EjectClean") \/ pc = "EjectClean" => tempBuildDir = "")
  /\ [][run' = run =>
          /\ pc # "ThemesCopy" => tempBuildDir' = tempBuildDir
          /\ pc # "os.Stat" => buildPath' = buildPath]_vars

C19_Witness ==
  /\ pc = "done"
  /\ tempBuildDir = TempDir
  /\ buildPath = "out"
  /\ \A n \in {"ThemesMerge", "os.RemoveAll", "NpmDefaults", "EjectTemp", "EjectCopy",
               "AssetsCopy", "Client", "DataSource", "Gopack"} : Called(n)
  /\ Returned("ThemesClean", "ok")

====
